---- MODULE Spec2Model ----
(***************************************************************************)
(* FastDB (openvdb-server): the in-memory vector index, the collection     *)
(* registry behind its reader/writer lock, and the durability layer (WAL,  *)
(* snapshot, startup recovery), as a state machine.                        *)
(*                                                                         *)
(* Request handlers run as tasks (Procs).  A handler has one await point,  *)
(* the acquisition of the registry lock; what follows runs synchronously   *)
(* with the lock guard alive until the handler returns.  The steps of a    *)
(* handler are: acquire and apply the in-memory mutation, append to the    *)
(* WAL, return.  A request payload is immutable task-local data, so the    *)
(* items of a batch are drawn when the loop reaches them.                  *)
(*                                                                         *)
(* Vector components are small integers (finite f32 values that the JSON   *)
(* encoding of a WAL line or a snapshot reproduces exactly).               *)
(***************************************************************************)
EXTENDS Integers, Sequences, FiniteSets, TLC

(* ------------------------------ bounds -------------------------------- *)
MaxDim == 2
MaxEvents == 4
MaxCommits == 4
MaxBatch == 2
MaxTopK == 2
MaxCrashes == 1
MaxSnapshots == 1
MaxCorrupt == 1
MaxAppendErrors == 1
MaxForeignLines == 2

(* ------------------------------ domains ------------------------------- *)
Procs == {"p1", "p2"}
(* every task carries mutating requests; one also carries the administrative *)
(* trigger, the other also carries queries                                   *)
Admins == {"p1"}
Readers == {"p2"}
Tenants == {"t1", "t2"}
Names == {"c", "d"}
(* the collections the requests name: two of one tenant, and one of the   *)
(* same name under the other tenant                                       *)
Targets == {tc \in Tenants \X Names : tc[1] = "t1" \/ tc[2] = "c"}
Ids == {"a", "b"}
Metas == {"None", "m"}
Dims == 0..MaxDim
(* the request vectors: per length 0..MaxDim, the zero vector and the unit vectors *)
Unit(n, i) == [j \in 1..n |-> IF j = i THEN 1 ELSE 0]
Vals == UNION {{Unit(n, i) : i \in 0..n} : n \in 0..MaxDim}
(* the request items: a vector comes with metadata when its first component is set *)
MetaFor(v) == IF Len(v) > 0 /\ v[1] = 1 THEN "m" ELSE "None"
Payloads == {[values |-> v, metadata |-> MetaFor(v)] : v \in Vals}
TopKs == 0..MaxTopK

(* ------------------------------ maps ---------------------------------- *)
EmptyMap == [k \in {} |-> k]
Put(f, k, v) == [y \in (DOMAIN f) \cup {k} |-> IF y = k THEN v ELSE f[y]]
Remove(f, k) == [y \in (DOMAIN f) \ {k} |-> f[y]]
Has(f, k) == k \in DOMAIN f

RECURSIVE SumSeq(_)
SumSeq(s) == IF s = <<>> THEN 0 ELSE Head(s) + SumSeq(Tail(s))

(* sum of x * x over the components *)
NormSq(v) == SumSeq([i \in 1..Len(v) |-> v[i] * v[i]])
Dot(u, v) == SumSeq([i \in 1..Len(u) |-> u[i] * v[i]])

(* ------------------------- InMemoryIndex ------------------------------ *)
(* hnsw is the graph's point list in insertion order: Hnsw::insert adds a *)
(* point (values, d_id) and never removes or replaces one.                *)
InMemoryIndex_new(dim) ==
    [dim |-> dim, vectors |-> EmptyMap, hnsw |-> <<>>,
     id_to_data_id |-> EmptyMap, data_id_to_id |-> EmptyMap,
     next_data_id |-> 0]

dimension(index) == index.dim

vector_count(index) == Cardinality(DOMAIN index.vectors)

IndexedVector(values, metadata) == [values |-> values, metadata |-> metadata]

(* insertions that hand out next_data_id without advancing it *)
upsert_store_counter_kept(index, id, values, metadata) ==
    LET known == Has(index.id_to_data_id, id)
        data_id == IF known THEN index.id_to_data_id[id] ELSE index.next_data_id
    IN  [dim |-> index.dim,
         vectors |-> Put(index.vectors, id, IndexedVector(values, metadata)),
         hnsw |-> Append(index.hnsw, [v |-> values, d_id |-> data_id]),
         id_to_data_id |-> Put(index.id_to_data_id, id, data_id),
         data_id_to_id |-> Put(index.data_id_to_id, data_id, id),
         next_data_id |-> index.next_data_id]

(* the index after the insertions of upsert, validation passed *)
upsert_store(index, id, values, metadata) ==
    LET known == Has(index.id_to_data_id, id)
        data_id == IF known THEN index.id_to_data_id[id] ELSE index.next_data_id
    IN  [dim |-> index.dim,
         vectors |-> Put(index.vectors, id, IndexedVector(values, metadata)),
         hnsw |-> Append(index.hnsw, [v |-> values, d_id |-> data_id]),
         id_to_data_id |-> Put(index.id_to_data_id, id, data_id),
         data_id_to_id |-> Put(index.data_id_to_id, data_id, id),
         next_data_id |-> IF known THEN index.next_data_id
                                   ELSE index.next_data_id + 1]

(* an upsert whose validation error is swallowed: Ok with nothing stored *)
upsert_error_swallowed(index, id, values, metadata) ==
    IF Len(values) # index.dim \/ NormSq(values) = 0
    THEN [ok |-> TRUE, err |-> "", index |-> index]
    ELSE [ok |-> TRUE, err |-> "", index |-> upsert_store(index, id, values, metadata)]

(* an upsert that stores the vector before it tests its length *)
upsert_mismatch_stored(index, id, values, metadata) ==
    IF Len(values) # index.dim
    THEN [ok |-> FALSE, err |-> "dimension",
          index |-> upsert_store(index, id, values, metadata)]
    ELSE IF NormSq(values) = 0
    THEN [ok |-> FALSE, err |-> "zero norm", index |-> index]
    ELSE [ok |-> TRUE, err |-> "", index |-> upsert_store(index, id, values, metadata)]

(* an upsert without the test of the norm *)
upsert_norm_unchecked(index, id, values, metadata) ==
    IF Len(values) # index.dim
    THEN [ok |-> FALSE, err |-> "dimension", index |-> index]
    ELSE [ok |-> TRUE, err |-> "", index |-> upsert_store(index, id, values, metadata)]

(* an upsert that stores the vector before it tests its norm *)
upsert_zero_stored(index, id, values, metadata) ==
    IF Len(values) # index.dim
    THEN [ok |-> FALSE, err |-> "dimension", index |-> index]
    ELSE IF NormSq(values) = 0
    THEN [ok |-> FALSE, err |-> "zero norm",
          index |-> upsert_store(index, id, values, metadata)]
    ELSE [ok |-> TRUE, err |-> "", index |-> upsert_store(index, id, values, metadata)]

(* Result<(), String> (err is the message of the Err) and the index       *)
(* afterwards                                                             *)
upsert(index, id, values, metadata) ==
    IF Len(values) # index.dim
    THEN [ok |-> FALSE, err |-> "dimension", index |-> index]
    ELSE IF NormSq(values) = 0
    THEN [ok |-> FALSE, err |-> "zero norm", index |-> index]
    ELSE [ok |-> TRUE, err |-> "", index |-> upsert_store(index, id, values, metadata)]

(* a delete that forgets the record and the reverse mapping *)
delete_mapping_only(index, id) ==
    IF Has(index.vectors, id)
    THEN [removed |-> TRUE,
          index |-> [index EXCEPT !.id_to_data_id = Remove(index.id_to_data_id, id)]]
    ELSE [removed |-> FALSE, index |-> index]

(* the removed flag and the index afterwards *)
delete(index, id) ==
    IF Has(index.vectors, id)
    THEN [removed |-> TRUE,
          index |-> [index EXCEPT
                       !.vectors = Remove(index.vectors, id),
                       !.id_to_data_id = Remove(index.id_to_data_id, id),
                       !.data_id_to_id =
                           IF Has(index.id_to_data_id, id)
                           THEN Remove(index.data_id_to_id, index.id_to_data_id[id])
                           ELSE index.data_id_to_id]]
    ELSE [removed |-> FALSE, index |-> index]

(* cosine similarity dot / sqrt(nn) as an exact pair; DistCosine reports  *)
(* 1 - similarity and query turns it back with 1.0 - dist                 *)
Similarity(q, v) == [dot |-> Dot(q, v), nn |-> NormSq(q) * NormSq(v)]

(* s1 >= s2 as similarities (nn > 0 on both sides) *)
SimGE(s1, s2) ==
    IF s1.dot >= 0 /\ s2.dot >= 0
    THEN s1.dot * s1.dot * s2.nn >= s2.dot * s2.dot * s1.nn
    ELSE IF s1.dot >= 0 THEN TRUE
    ELSE IF s2.dot >= 0 THEN FALSE
    ELSE s1.dot * s1.dot * s2.nn <= s2.dot * s2.dot * s1.nn

SimEq(s1, s2) == SimGE(s1, s2) /\ SimGE(s2, s1)

(* Hnsw::search(query, knbn, ef): the knbn nearest points in ascending    *)
(* distance, as sequences of positions in the point list; equidistant     *)
(* points come in any order.  With fewer points than ef the search visits *)
(* the whole graph, so it is exact on the graphs reached here.            *)
RECURSIVE hnsw_nearest(_, _, _, _)
hnsw_nearest(hnsw, q, S, knbn) ==
    IF knbn = 0 \/ S = {} THEN {<<>>}
    ELSE LET first == {i \in S : \A j \in S :
                          SimGE(Similarity(q, hnsw[i].v), Similarity(q, hnsw[j].v))}
         IN  UNION {{<<i>> \o r : r \in hnsw_nearest(hnsw, q, S \ {i}, knbn - 1)}
                    : i \in first}

hnsw_search(hnsw, q, knbn, ef) == hnsw_nearest(hnsw, q, 1..Len(hnsw), knbn)

ScoredPoint(id, score, metadata) == [id |-> id, score |-> score, metadata |-> metadata]

(* the loop of query over the neighbours: map the internal id back, skip  *)
(* unmapped ids, score each hit, stop at top_k                            *)
RECURSIVE query_collect(_, _, _, _, _)
query_collect(index, q, neighbours, top_k, scored) ==
    IF neighbours = <<>> THEN scored
    ELSE LET n == index.hnsw[Head(neighbours)]
             rest == Tail(neighbours)
         IN  IF ~Has(index.data_id_to_id, n.d_id)
             THEN query_collect(index, q, rest, top_k, scored)
             ELSE LET external_id == index.data_id_to_id[n.d_id]
                  IN  IF ~Has(index.vectors, external_id)
                      THEN query_collect(index, q, rest, top_k, scored)
                      ELSE LET pushed == Append(scored,
                                   ScoredPoint(external_id, Similarity(q, n.v),
                                               index.vectors[external_id].metadata))
                           IN  IF Len(pushed) = top_k THEN pushed
                               ELSE query_collect(index, q, rest, top_k, pushed)

Max(a, b) == IF a >= b THEN a ELSE b

(* every Result<Vec<ScoredPoint>, String> the query can return *)
query(index, q, top_k) ==
    IF Len(q) # index.dim
    THEN {[ok |-> FALSE, err |-> "query dimension", matches |-> <<>>]}
    ELSE IF top_k = 0 \/ DOMAIN index.vectors = {}
    THEN {[ok |-> TRUE, err |-> "", matches |-> <<>>]}
    ELSE IF NormSq(q) = 0
    THEN {[ok |-> FALSE, err |-> "query zero norm", matches |-> <<>>]}
    ELSE {[ok |-> TRUE, err |-> "", matches |-> query_collect(index, q, nb, top_k, <<>>)]
          : nb \in hnsw_search(index.hnsw, q, top_k * 4, Max(top_k, 64))}

(* export_vectors: the live records (id, values, metadata); the map has   *)
(* no order, so any order of the records is a possible dump               *)
RECURSIVE SeqsOf(_)
SeqsOf(S) == IF S = {} THEN {<<>>}
             ELSE UNION {{<<x>> \o r : r \in SeqsOf(S \ {x})} : x \in S}

export_vectors(index) ==
    SeqsOf({[id |-> id, values |-> index.vectors[id].values,
             metadata |-> index.vectors[id].metadata] : id \in DOMAIN index.vectors})

(* ------------------------------ WAL ----------------------------------- *)
CreateCollection(tenant, name, dim) ==
    [type |-> "create_collection", tenant |-> tenant, name |-> name, dimension |-> dim]
DeleteCollection(tenant, name) ==
    [type |-> "delete_collection", tenant |-> tenant, name |-> name]
UpsertVector(tenant, collection, id, values, metadata) ==
    [type |-> "upsert_vector", tenant |-> tenant, collection |-> collection,
     id |-> id, values |-> values, metadata |-> metadata]
DeleteVector(tenant, collection, id) ==
    [type |-> "delete_vector", tenant |-> tenant, collection |-> collection, id |-> id]

(* a line of the WAL file: serde_json::to_string(entry), or what damage   *)
(* to the file left in its place                                          *)
to_string(entry) == [kind |-> "json", entry |-> entry]
GarbageLine == [kind |-> "garbage"]
BlankLine == [kind |-> "blank"]
DamagedLines == {GarbageLine, BlankLine}

(* line.trim().is_empty() *)
is_blank(line) == line.kind = "blank"

(* serde_json::from_str: Result<WalEntry, _> *)
from_str(line) ==
    IF line.kind = "json" THEN [ok |-> TRUE, entry |-> line.entry]
    ELSE [ok |-> FALSE, entry |-> [type |-> "none"]]

(* collections.entry(tenant).or_insert_with(HashMap::new) *)
entry_or_default(collections, tenant) ==
    IF Has(collections, tenant) THEN collections ELSE Put(collections, tenant, EmptyMap)

(* the match arms of replay_wal *)
replay_create(collections, e) ==
    LET cs == entry_or_default(collections, e.tenant)
    IN  IF Has(cs[e.tenant], e.name) THEN cs
        ELSE Put(cs, e.tenant, Put(cs[e.tenant], e.name, InMemoryIndex_new(e.dimension)))

(* replay_delete_collection without the pruning of an emptied tenant map *)
replay_delete_collection_keeps_tenant(collections, e) ==
    IF Has(collections, e.tenant)
    THEN Put(collections, e.tenant, Remove(collections[e.tenant], e.name))
    ELSE collections

replay_delete_collection(collections, e) ==
    IF Has(collections, e.tenant)
    THEN LET tenant_map == Remove(collections[e.tenant], e.name)
         IN  IF DOMAIN tenant_map = {} THEN Remove(collections, e.tenant)
             ELSE Put(collections, e.tenant, tenant_map)
    ELSE collections

replay_upsert(collections, e) ==
    LET dim == Len(e.values)
        cs == entry_or_default(collections, e.tenant)
        index == IF Has(cs[e.tenant], e.collection) THEN cs[e.tenant][e.collection]
                 ELSE InMemoryIndex_new(dim)
    IN  Put(cs, e.tenant,
            Put(cs[e.tenant], e.collection,
                upsert(index, e.id, e.values, e.metadata).index))

(* a replay that passes over the DeleteVector records *)
replay_delete_vector_ignored(collections, e) == collections

replay_delete_vector(collections, e) ==
    IF Has(collections, e.tenant)
    THEN LET tm == collections[e.tenant]
             tenant_map == IF Has(tm, e.collection)
                           THEN Put(tm, e.collection, delete(tm[e.collection], e.id).index)
                           ELSE tm
         IN  IF DOMAIN tenant_map = {} THEN Remove(collections, e.tenant)
             ELSE Put(collections, e.tenant, tenant_map)
    ELSE collections

replay_entry(collections, e) ==
    CASE e.type = "create_collection" -> replay_create(collections, e)
      [] e.type = "delete_collection" -> replay_delete_collection(collections, e)
      [] e.type = "upsert_vector" -> replay_upsert(collections, e)
      [] e.type = "delete_vector" -> replay_delete_vector(collections, e)

RECURSIVE replay_wal(_, _)

(* the Err arm of the parse in replay_wal: log and continue with the next line *)
replay_parse_error_stops(rest, collections) == collections

replay_parse_error(rest, collections) == replay_wal(rest, collections)

(* replay_wal over the lines of the file, in file order *)
replay_wal(lines, collections) ==
    IF lines = <<>> THEN collections
    ELSE LET line == Head(lines)
             rest == Tail(lines)
         IN  IF is_blank(line) THEN replay_wal(rest, collections)
             ELSE IF ~from_str(line).ok THEN replay_parse_error(rest, collections)
             ELSE replay_wal(rest, replay_entry(collections, from_str(line).entry))

(* ---------------------------- snapshots ------------------------------- *)
AbsentFile == [kind |-> "absent"]
MalformedFile == [kind |-> "malformed"]
SnapshotFile(snap) == [kind |-> "json", snap |-> snap]

RECURSIVE snapshot_collections(_, _)
(* the inner loop of write_snapshot_from_state: one SnapshotCollection per name *)
snapshot_collections(col_map, names) ==
    IF names = {} THEN {EmptyMap}
    ELSE LET name == CHOOSE n \in names : TRUE
         IN  {Put(m, name, [dimension |-> dimension(col_map[name]), vectors |-> vs])
              : m \in snapshot_collections(col_map, names \ {name}),
                vs \in export_vectors(col_map[name])}

RECURSIVE snapshot_tenants(_, _)
(* the Snapshot structs write_snapshot_from_state can build from the state *)
snapshot_tenants(collections, tenants) ==
    IF tenants = {} THEN {EmptyMap}
    ELSE LET tenant == CHOOSE t \in tenants : TRUE
         IN  {Put(m, tenant, cm)
              : m \in snapshot_tenants(collections, tenants \ {tenant}),
                cm \in snapshot_collections(collections[tenant], DOMAIN collections[tenant])}

build_snapshot(collections) == snapshot_tenants(collections, DOMAIN collections)

RECURSIVE load_vectors(_, _)
(* for v in sc.vectors { let _ = index.upsert(..) } *)
load_vectors(index, vectors) ==
    IF vectors = <<>> THEN index
    ELSE load_vectors(upsert(index, Head(vectors).id, Head(vectors).values,
                             Head(vectors).metadata).index,
                      Tail(vectors))

(* Result<Option<map>>: tag is "Err", "None" or "Some" *)
load_collections_from_snapshot(file) ==
    IF file.kind = "absent" THEN [tag |-> "None", map |-> EmptyMap]
    ELSE IF file.kind # "json" THEN [tag |-> "Err", map |-> EmptyMap]
    ELSE [tag |-> "Some",
          map |-> [t \in DOMAIN file.snap |->
                     [c \in DOMAIN file.snap[t] |->
                        load_vectors(InMemoryIndex_new(file.snap[t][c].dimension),
                                     file.snap[t][c].vectors)]]]

(* main that replays the WAL only when no snapshot was loaded *)
startup_collections_snapshot_only(snapshot_file, wal_lines) ==
    LET loaded == load_collections_from_snapshot(snapshot_file)
    IN  IF loaded.tag = "Some" THEN loaded.map ELSE replay_wal(wal_lines, EmptyMap)

(* main: the state the server starts serving with *)
startup_collections(snapshot_file, wal_lines) ==
    LET loaded == load_collections_from_snapshot(snapshot_file)
        base == IF loaded.tag = "Some" THEN loaded.map ELSE EmptyMap
    IN  replay_wal(wal_lines, base)

(* what a client can observe of the registry: tenants, collections,       *)
(* dimensions, live ids with their values and metadata                    *)
Visible(collections) ==
    [t \in DOMAIN collections |->
       [c \in DOMAIN collections[t] |->
          [dimension |-> collections[t][c].dim,
           vectors |-> collections[t][c].vectors]]]

(* ------------------------------ state --------------------------------- *)
VARIABLES
    phase,         \* "Cold": the process is not running; "Live": it serves requests
    collections,   \* AppState.collections: tenant -> name -> InMemoryIndex
    lock,          \* the RwLock around collections: its writer and its readers
    pc,            \* where each request task is in its handler
    req,           \* the handler's local variables
    out,           \* the response the last step sent, if it sent one
    wal,           \* data/wal.jsonl, a sequence of lines
    snapshot,      \* data/snapshot.json
    tmp,           \* data/snapshot.json.tmp
    applied,       \* history: the number of mutations applied to collections so far
    fullWal,       \* history: every record appended so far, with the number of its mutation
    nfail,         \* history: the number of append_entry calls that failed
    tombs,         \* history: <<tenant, name, id>> deleted and not upserted since
    ncrash, nsnap, ncorrupt   \* counters that bound the run

vars == <<phase, collections, lock, pc, req, out, wal, snapshot, tmp,
          applied, fullWal, nfail, tombs, ncrash, nsnap, ncorrupt>>

NoReq == [op |-> "none"]
NoOut == [status |-> "none"]
FreeLock == [writer |-> "none", readers |-> {}]

(* a response: its status and the count it carries (upserted, matches, deleted) *)
BadRequest(n, msg) == [status |-> "bad_request", n |-> n, msg |-> msg]
Response(status, n) == [status |-> status, n |-> n]

(* a lock that admits a writer whatever is held *)
can_write_unguarded(l) == TRUE

(* RwLock::write().await is granted when nobody holds the lock *)
can_write(l) == l.writer = "none" /\ l.readers = {}

(* a lock that admits a reader whatever is held *)
can_read_unguarded(l) == TRUE

(* RwLock::read().await is granted when no writer holds the lock *)
can_read(l) == l.writer = "none"

write_guard(l, p) == [l EXCEPT !.writer = p]
(* a reader that works on the registry without holding the lock *)
read_guard_not_held(l, p) == l

read_guard(l, p) == [l EXCEPT !.readers = @ \cup {p}]
drop_guard(l, p) == [writer |-> IF l.writer = p THEN "none" ELSE l.writer,
                     readers |-> l.readers \ {p}]

Init ==
    /\ phase = "Cold"
    /\ collections = EmptyMap
    /\ lock = FreeLock
    /\ pc = [p \in Procs |-> "idle"]
    /\ req = [p \in Procs |-> NoReq]
    /\ out = NoOut
    /\ wal = <<>>
    /\ snapshot = AbsentFile
    /\ tmp = AbsentFile
    /\ applied = 0
    /\ fullWal = <<>>
    /\ nfail = 0
    /\ tombs = {}
    /\ ncrash = 0
    /\ nsnap = 0
    /\ ncorrupt = 0

Files == <<wal, snapshot, tmp>>

(* a run is bounded in its events: mutations applied, snapshots triggered, *)
(* crashes, damaged files and failed appends                              *)
Events == applied + nsnap + ncrash + ncorrupt + nfail
MayCommit == applied < MaxCommits /\ Events < MaxEvents

(* the server runs and the response of the last step has left *)
Serving == phase = "Live" /\ out = NoOut
Counters == <<ncrash, nsnap, ncorrupt>>
Log == <<fullWal, nfail>>

(* ------------------------------ startup ------------------------------- *)
(* main: load the snapshot, replay the WAL on top, serve *)
Main ==
    /\ phase = "Cold"
    /\ phase' = "Live"
    /\ collections' = startup_collections(snapshot, wal)
    /\ out' = NoOut
    /\ UNCHANGED <<lock, pc, req, Files, applied, Log, tombs, Counters>>

(* the response just sent reaches its client *)
Deliver ==
    /\ out # NoOut
    /\ out' = NoOut
    /\ UNCHANGED <<phase, collections, lock, pc, req, Files, applied, Log, tombs, Counters>>

(* the process stops at any point; memory and the tasks in flight are lost *)
Crash ==
    /\ phase = "Live"
    /\ ncrash < MaxCrashes /\ Events < MaxEvents
    /\ phase' = "Cold"
    /\ collections' = EmptyMap
    /\ lock' = FreeLock
    /\ pc' = [p \in Procs |-> "idle"]
    /\ req' = [p \in Procs |-> NoReq]
    /\ out' = NoOut
    /\ tombs' = {}
    /\ ncrash' = ncrash + 1
    /\ UNCHANGED <<Files, applied, Log, nsnap, ncorrupt>>

(* damage to the files while the process is down *)
CorruptSnapshot ==
    /\ phase = "Cold"
    /\ ncorrupt < MaxCorrupt /\ Events < MaxEvents
    /\ snapshot.kind = "json"
    /\ snapshot' = MalformedFile
    /\ ncorrupt' = ncorrupt + 1
    /\ UNCHANGED <<phase, collections, lock, pc, req, out, wal, tmp, applied, Log,
                   tombs, ncrash, nsnap>>

CorruptWal ==
    /\ phase = "Cold"
    /\ ncorrupt < MaxCorrupt /\ Events < MaxEvents
    /\ \E i \in 1..Len(wal), bad \in DamagedLines :
          wal' = [wal EXCEPT ![i] = bad]
    /\ ncorrupt' = ncorrupt + 1
    /\ UNCHANGED <<phase, collections, lock, pc, req, out, snapshot, tmp, applied, Log,
                   tombs, ncrash, nsnap>>

(* -------------------------- create_collection ------------------------- *)
(* payload.dimension == 0: 400 before the lock is asked for *)
create_collection_zero(p) ==
    /\ Serving /\ pc[p] = "idle"
    /\ out' = BadRequest(0, "dimension must be greater than 0")
    /\ UNCHANGED <<phase, collections, lock, pc, req, Files, applied, Log, tombs, Counters>>

(* a create that inserts the new index before it looks for the name *)
create_apply_replaces(cs0, tenant, name, dim) ==
    LET cs == entry_or_default(cs0, tenant)
    IN  [conflict |-> Has(cs[tenant], name),
         collections |-> Put(cs, tenant, Put(cs[tenant], name, InMemoryIndex_new(dim)))]

(* the registry after create_collection's or_default and insert, and      *)
(* whether the name was taken                                             *)
create_apply(cs0, tenant, name, dim) ==
    LET cs == entry_or_default(cs0, tenant)
    IN  IF Has(cs[tenant], name)
        THEN [conflict |-> TRUE, collections |-> cs]
        ELSE [conflict |-> FALSE,
              collections |-> Put(cs, tenant, Put(cs[tenant], name, InMemoryIndex_new(dim)))]

create_collection(p, tenant, name, dim) ==
    /\ Serving /\ pc[p] = "idle"
    /\ dim # 0
    /\ can_write(lock)
    /\ LET r == create_apply(collections, tenant, name, dim)
       IN  /\ collections' = r.collections
           /\ IF r.conflict
              THEN /\ out' = Response("conflict", 0)
                   /\ UNCHANGED <<lock, pc, req, applied>>
              ELSE /\ MayCommit
                   /\ applied' = applied + 1
                   /\ lock' = write_guard(lock, p)
                   /\ pc' = [pc EXCEPT ![p] = "append"]
                   /\ req' = [req EXCEPT ![p] =
                                [op |-> "create_collection",
                                 entry |-> CreateCollection(tenant, name, dim),
                                 seq |-> applied + 1, n |-> dim]]
                   /\ out' = NoOut
    /\ UNCHANGED <<phase, Files, Log, tombs, Counters>>

(* -------------------------- delete_collection ------------------------- *)
(* a removal that leaves the tenant's map in place when it is empty *)
delete_collection_apply_keeps_tenant(cs, tenant, name) ==
    IF Has(cs, tenant)
    THEN [existed |-> Has(cs[tenant], name),
          collections |-> Put(cs, tenant, Remove(cs[tenant], name))]
    ELSE [existed |-> FALSE, collections |-> cs]

(* the registry after the removal, and whether the collection existed *)
delete_collection_apply(cs, tenant, name) ==
    IF Has(cs, tenant)
    THEN LET removed == Has(cs[tenant], name)
             tenant_map == Remove(cs[tenant], name)
         IN  [existed |-> removed,
              collections |-> IF DOMAIN tenant_map = {} THEN Remove(cs, tenant)
                              ELSE Put(cs, tenant, tenant_map)]
    ELSE [existed |-> FALSE, collections |-> cs]

delete_collection(p, tenant, name) ==
    /\ Serving /\ pc[p] = "idle"
    /\ can_write(lock)
    /\ LET r == delete_collection_apply(collections, tenant, name)
       IN  /\ collections' = r.collections
           /\ IF ~r.existed
              THEN /\ out' = Response("not_found", 0)
                   /\ UNCHANGED <<lock, pc, req, applied>>
              ELSE /\ MayCommit
                   /\ applied' = applied + 1
                   /\ lock' = write_guard(lock, p)
                   /\ pc' = [pc EXCEPT ![p] = "append"]
                   /\ req' = [req EXCEPT ![p] =
                                [op |-> "delete_collection",
                                 entry |-> DeleteCollection(tenant, name),
                                 seq |-> applied + 1, n |-> 1]]
                   /\ out' = NoOut
    /\ UNCHANGED <<phase, Files, Log, tombs, Counters>>

(* get_mut(&tenant) then get_mut(&name) *)
lookup(cs, tenant, name) == Has(cs, tenant) /\ Has(cs[tenant], name)

(* a registry keyed by the collection name alone *)
put_index_by_name(cs, tenant, name, index) ==
    [t \in DOMAIN cs |->
        IF Has(cs[t], name) THEN Put(cs[t], name, index) ELSE cs[t]]

put_index(cs, tenant, name, index) == Put(cs, tenant, Put(cs[tenant], name, index))

(* ---------------------------- upsert_vectors -------------------------- *)
upsert_vectors(p, tenant, name) ==
    /\ Serving /\ pc[p] = "idle"
    /\ can_write(lock)
    /\ IF ~lookup(collections, tenant, name)
       THEN /\ out' = Response("not_found", 0)
            /\ UNCHANGED <<lock, pc, req>>
       ELSE /\ lock' = write_guard(lock, p)
            /\ pc' = [pc EXCEPT ![p] = "upsert_loop"]
            /\ req' = [req EXCEPT ![p] =
                         [op |-> "upsert_vectors", tenant |-> tenant, name |-> name,
                          n |-> 0]]
            /\ out' = NoOut
    /\ UNCHANGED <<phase, collections, Files, applied, Log, tombs, Counters>>

(* one turn of the loop over payload.vectors: index.upsert, then the      *)
(* record to append; an error of index.upsert ends the request            *)
upsert_item(p, id, values, metadata) ==
    /\ Serving /\ pc[p] = "upsert_loop"
    /\ req[p].n < MaxBatch
    /\ lookup(collections, req[p].tenant, req[p].name)
    /\ LET tenant == req[p].tenant
           name == req[p].name
           r == upsert(collections[tenant][name], id, values, metadata)
       IN  IF ~r.ok
           THEN /\ out' = BadRequest(req[p].n, r.err)
                /\ collections' = put_index(collections, tenant, name, r.index)
                /\ lock' = drop_guard(lock, p)
                /\ pc' = [pc EXCEPT ![p] = "idle"]
                /\ req' = [req EXCEPT ![p] = NoReq]
                /\ UNCHANGED <<applied, tombs>>
           ELSE /\ MayCommit
                /\ applied' = applied + 1
                /\ collections' = put_index(collections, tenant, name, r.index)
                /\ pc' = [pc EXCEPT ![p] = "append"]
                /\ req' = [req EXCEPT ![p] =
                             [op |-> "upsert_vectors", tenant |-> tenant, name |-> name,
                              entry |-> UpsertVector(tenant, name, id, values, metadata),
                              seq |-> applied + 1, n |-> req[p].n + 1]]
                /\ tombs' = tombs \ {<<tenant, name, id>>}
                /\ out' = NoOut
                /\ UNCHANGED lock
    /\ UNCHANGED <<phase, Files, Log, Counters>>

(* payload.vectors is exhausted: Ok(UpsertResponse { upserted: count }) *)
upsert_done(p) ==
    /\ Serving /\ pc[p] = "upsert_loop"
    /\ out' = Response("ok", req[p].n)
    /\ lock' = drop_guard(lock, p)
    /\ pc' = [pc EXCEPT ![p] = "idle"]
    /\ req' = [req EXCEPT ![p] = NoReq]
    /\ UNCHANGED <<phase, collections, Files, applied, Log, tombs, Counters>>

(* ---------------------------- delete_vector --------------------------- *)
delete_vector(p, tenant, name, id) ==
    /\ Serving /\ pc[p] = "idle"
    /\ can_write(lock)
    /\ IF ~lookup(collections, tenant, name)
       THEN /\ out' = Response("not_found", 0)
            /\ UNCHANGED <<collections, lock, pc, req, applied, tombs>>
       ELSE LET r == delete(collections[tenant][name], id)
            IN  /\ collections' = put_index(collections, tenant, name, r.index)
                /\ IF ~r.removed
                   THEN /\ out' = Response("ok", 0)
                        /\ UNCHANGED <<lock, pc, req, applied, tombs>>
                   ELSE /\ MayCommit
                        /\ applied' = applied + 1
                        /\ lock' = write_guard(lock, p)
                        /\ pc' = [pc EXCEPT ![p] = "append"]
                        /\ req' = [req EXCEPT ![p] =
                                     [op |-> "delete_vector",
                                      entry |-> DeleteVector(tenant, name, id),
                                      seq |-> applied + 1, n |-> 1]]
                        /\ tombs' = tombs \cup {<<tenant, name, id>>}
                        /\ out' = NoOut
    /\ UNCHANGED <<phase, Files, Log, Counters>>

(* ------------------------------ append_entry -------------------------- *)
(* what the handler does after its append_entry call, whether the call    *)
(* returned Ok or Err (an Err is logged): the batch loop goes on, the     *)
(* other handlers return their success response                           *)
after_append(p) ==
    IF req[p].op = "upsert_vectors"
    THEN /\ pc' = [pc EXCEPT ![p] = "upsert_loop"]
         /\ out' = NoOut
         /\ UNCHANGED <<lock, req>>
    ELSE /\ pc' = [pc EXCEPT ![p] = "idle"]
         /\ out' = Response("ok", req[p].n)
         /\ lock' = drop_guard(lock, p)
         /\ req' = [req EXCEPT ![p] = NoReq]

(* append_entry returns Ok: the line is at the end of the file *)
append_entry_ok(p) ==
    /\ Serving /\ pc[p] = "append"
    /\ wal' = Append(wal, to_string(req[p].entry))
    /\ fullWal' = Append(fullWal, [entry |-> req[p].entry, seq |-> req[p].seq])
    /\ after_append(p)
    /\ UNCHANGED <<phase, collections, snapshot, tmp, applied, nfail, tombs, Counters>>

(* a handler that turns the Err of append_entry into its own error *)
append_entry_err_fatal(p) ==
    /\ Serving /\ pc[p] = "append"
    /\ nfail < MaxAppendErrors /\ Events < MaxEvents
    /\ nfail' = nfail + 1
    /\ out' = Response("error", 0)
    /\ lock' = drop_guard(lock, p)
    /\ pc' = [pc EXCEPT ![p] = "idle"]
    /\ req' = [req EXCEPT ![p] = NoReq]
    /\ UNCHANGED <<phase, collections, Files, applied, fullWal, tombs, Counters>>

(* append_entry returns Err (the directory, the open, the write or the    *)
(* flush failed): nothing reached the file                                *)
append_entry_err(p) ==
    /\ Serving /\ pc[p] = "append"
    /\ nfail < MaxAppendErrors /\ Events < MaxEvents
    /\ nfail' = nfail + 1
    /\ after_append(p)
    /\ UNCHANGED <<phase, collections, Files, applied, fullWal, tombs, Counters>>

(* ------------------------------ query_vectors ------------------------- *)
query_vectors_lock(p) ==
    /\ Serving /\ pc[p] = "idle"
    /\ can_read(lock)
    /\ lock' = read_guard(lock, p)
    /\ pc' = [pc EXCEPT ![p] = "query"]
    /\ req' = [req EXCEPT ![p] = [op |-> "query_vectors"]]
    /\ out' = NoOut
    /\ UNCHANGED <<phase, collections, Files, applied, Log, tombs, Counters>>

query_vectors(p, tenant, name, vector, top_k) ==
    /\ Serving /\ pc[p] = "query"
    /\ IF ~lookup(collections, tenant, name)
       THEN out' = Response("not_found", 0)
       ELSE \E r \in query(collections[tenant][name], vector, top_k) :
               out' = IF r.ok THEN Response("ok", Len(r.matches))
                      ELSE BadRequest(0, r.err)
    /\ lock' = drop_guard(lock, p)
    /\ pc' = [pc EXCEPT ![p] = "idle"]
    /\ req' = [req EXCEPT ![p] = NoReq]
    /\ UNCHANGED <<phase, collections, Files, applied, Log, tombs, Counters>>

(* ------------------------------ snapshot ------------------------------ *)
(* the administrative trigger: write_snapshot_from_state(&collections)    *)
(* under a read guard; one trigger at a time                              *)
create_snapshot(p) ==
    /\ Serving /\ pc[p] = "idle"
    /\ nsnap < MaxSnapshots /\ Events < MaxEvents
    /\ \A o \in Procs : pc[o] \notin {"snap_tmp", "snap_rename", "snap_truncate"}
    /\ can_read(lock)
    /\ lock' = read_guard(lock, p)
    /\ pc' = [pc EXCEPT ![p] = "snap_tmp"]
    /\ req' = [req EXCEPT ![p] = [op |-> "create_snapshot"]]
    /\ nsnap' = nsnap + 1
    /\ out' = NoOut
    /\ UNCHANGED <<phase, collections, Files, applied, Log, tombs, ncrash, ncorrupt>>

(* how a handler leaves on an Err of write_snapshot_from_state *)
snapshot_failed(p) ==
    /\ out' = Response("error", 0)
    /\ lock' = drop_guard(lock, p)
    /\ pc' = [pc EXCEPT ![p] = "idle"]
    /\ req' = [req EXCEPT ![p] = NoReq]

(* build the Snapshot and write it to data/snapshot.json.tmp *)
write_snapshot_tmp(p) ==
    /\ Serving /\ pc[p] = "snap_tmp"
    /\ \/ /\ \E snap \in build_snapshot(collections) : tmp' = SnapshotFile(snap)
          /\ pc' = [pc EXCEPT ![p] = "snap_rename"]
          /\ out' = NoOut
          /\ UNCHANGED <<lock, req>>
       \/ /\ tmp' \in {tmp, MalformedFile}
          /\ snapshot_failed(p)
    /\ UNCHANGED <<phase, collections, wal, snapshot, applied, Log, tombs, Counters>>

(* a rename whose Err is ignored: the truncation follows either way *)
rename_snapshot_unchecked(p) ==
    /\ Serving /\ pc[p] = "snap_rename"
    /\ \/ /\ snapshot' = tmp
          /\ tmp' = AbsentFile
       \/ UNCHANGED <<snapshot, tmp>>
    /\ pc' = [pc EXCEPT ![p] = "snap_truncate"]
    /\ out' = NoOut
    /\ UNCHANGED <<lock, req>>
    /\ UNCHANGED <<phase, collections, wal, applied, Log, tombs, Counters>>

(* fs::rename(tmp_path, SNAPSHOT_FILE) *)
rename_snapshot(p) ==
    /\ Serving /\ pc[p] = "snap_rename"
    /\ \/ /\ snapshot' = tmp
          /\ tmp' = AbsentFile
          /\ pc' = [pc EXCEPT ![p] = "snap_truncate"]
          /\ out' = NoOut
          /\ UNCHANGED <<lock, req>>
       \/ /\ snapshot_failed(p)
          /\ UNCHANGED <<snapshot, tmp>>
    /\ UNCHANGED <<phase, collections, wal, applied, Log, tombs, Counters>>

(* truncate_wal: the open with truncate(true) empties the file; an Err    *)
(* comes from the open (file untouched) or from sync_all (file emptied)   *)
truncate_wal(p) ==
    /\ Serving /\ pc[p] = "snap_truncate"
    /\ \/ /\ wal' = <<>>
          /\ out' = Response("ok", 0)
          /\ lock' = drop_guard(lock, p)
          /\ pc' = [pc EXCEPT ![p] = "idle"]
          /\ req' = [req EXCEPT ![p] = NoReq]
       \/ /\ wal' \in {wal, <<>>}
          /\ snapshot_failed(p)
    /\ UNCHANGED <<phase, collections, snapshot, tmp, applied, Log, tombs, Counters>>

(* ------------------------------ the system ---------------------------- *)
Next ==
    \/ Main
    \/ Crash
    \/ Deliver
    \/ CorruptSnapshot
    \/ CorruptWal
    \/ \E p \in Procs :
          \/ create_collection_zero(p)
          \/ \E tc \in Targets, d \in Dims : create_collection(p, tc[1], tc[2], d)
          \/ \E tc \in Targets : delete_collection(p, tc[1], tc[2])
          \/ \E tc \in Targets : upsert_vectors(p, tc[1], tc[2])
          \/ \E id \in Ids, v \in Payloads : upsert_item(p, id, v.values, v.metadata)
          \/ upsert_done(p)
          \/ \E tc \in Targets, id \in Ids : delete_vector(p, tc[1], tc[2], id)
          \/ append_entry_ok(p)
          \/ append_entry_err(p)
          \/ \E tc \in Targets, v \in Vals, k \in TopKs :
                query_vectors(p, tc[1], tc[2], v, k)
          \/ write_snapshot_tmp(p)
          \/ rename_snapshot(p)
          \/ truncate_wal(p)

    \/ \E p \in Readers : query_vectors_lock(p)
    \/ \E p \in Admins : create_snapshot(p)

Spec == Init /\ [][Next]_vars

(* ------------------- startup on a WAL file as found ------------------- *)
(* replay_wal reads whatever lines data/wal.jsonl holds: here every file  *)
(* of up to MaxForeignLines well-formed records, written by this server   *)
(* or not                                                                 *)
ForeignEntries ==
    {CreateCollection(tc[1], tc[2], d) : tc \in Targets, d \in Dims}
        \cup {UpsertVector(tc[1], tc[2], "a", v.values, v.metadata) :
                 tc \in Targets, v \in Payloads}
ForeignWals ==
    UNION {[1..n -> {to_string(e) : e \in ForeignEntries}] : n \in 1..MaxForeignLines}

ReplayInit ==
    /\ phase = "Cold"
    /\ collections = EmptyMap
    /\ lock = FreeLock
    /\ pc = [p \in Procs |-> "idle"]
    /\ req = [p \in Procs |-> NoReq]
    /\ out = NoOut
    /\ wal \in ForeignWals
    /\ snapshot = AbsentFile
    /\ tmp = AbsentFile
    /\ applied = 0
    /\ fullWal = <<>>
    /\ nfail = 0
    /\ tombs = {}
    /\ ncrash = 0
    /\ nsnap = 0
    /\ ncorrupt = 0

ReplayNext == Main

ReplaySpec == ReplayInit /\ [][ReplayNext]_vars

(* ====================================================================== *)
(*                              the claims                                *)
(* ====================================================================== *)

(* no task stands between its in-memory mutation and the append for it *)
NoAppendPending == \A p \in Procs : pc[p] # "append"

(* the WAL holds every record of the run: no append failed, no snapshot   *)
(* truncated it, no line was damaged                                      *)
WalComplete == nfail = 0 /\ nsnap = 0 /\ ncorrupt = 0

(* C1: durability round trip.  From an empty data directory, as long as   *)
(* every append succeeded, replaying the WAL into an empty registry gives *)
(* the visible state of the in-memory registry: the same tenants, the     *)
(* same collections with the same dimension, the same live ids with the   *)
(* same values and metadata.                                              *)
C1_DurabilityRoundTrip ==
    (phase = "Live" /\ WalComplete /\ NoAppendPending)
        => Visible(replay_wal(wal, EmptyMap)) = Visible(collections)

(* create, upsert a, upsert b, delete a has been logged and the           *)
(* collection holds only b                                                *)
C1_Witness ==
    /\ phase = "Live" /\ WalComplete /\ NoAppendPending
    /\ Len(wal) = 4
    /\ from_str(wal[1]).entry.type = "create_collection"
    /\ from_str(wal[2]).entry.type = "upsert_vector"
    /\ from_str(wal[3]).entry.type = "upsert_vector"
    /\ from_str(wal[4]).entry = DeleteVector("t1", "c", "a")
    /\ lookup(collections, "t1", "c")
    /\ DOMAIN collections["t1"]["c"].vectors = {"b"}
    /\ Visible(replay_wal(wal, EmptyMap)) = Visible(collections)

(* the lines of every record appended so far, never truncated *)
FullWalLines == [i \in 1..Len(fullWal) |-> to_string(fullWal[i].entry)]

(* startup recovery and the replay of the full record sequence agree *)
RecoveryIsFullReplay ==
    Visible(startup_collections(snapshot, wal))
        = Visible(replay_wal(FullWalLines, EmptyMap))

(* C2 as stated: for any operation sequence and any point at which a      *)
(* snapshot is taken, startup recovery (snapshot, then the WAL entries    *)
(* appended after it) gives the state of the replay of the full,          *)
(* never-truncated record sequence.                                       *)
C2_AsStated ==
    (snapshot.kind = "json" /\ ncorrupt = 0) => RecoveryIsFullReplay

(* C2 amended: the same, for operation sequences in which every WAL       *)
(* append succeeded (a mutation whose append failed is in the snapshot    *)
(* and in no record).                                                     *)
C2_SnapshotPlusTail ==
    (snapshot.kind = "json" /\ ncorrupt = 0 /\ nfail = 0) => RecoveryIsFullReplay

(* a snapshot was taken, the WAL was truncated and has entries appended   *)
(* after it, and recovery rebuilds a collection with a live vector        *)
C2_Witness ==
    /\ snapshot.kind = "json" /\ ncorrupt = 0 /\ nfail = 0
    /\ Len(wal) > 0 /\ Len(fullWal) > Len(wal)
    /\ DOMAIN snapshot.snap # {}
    /\ \E t \in DOMAIN startup_collections(snapshot, wal) :
          \E c \in DOMAIN startup_collections(snapshot, wal)[t] :
             DOMAIN startup_collections(snapshot, wal)[t][c].vectors # {}
    /\ RecoveryIsFullReplay

(* C3 as stated: a malformed snapshot file is fatal at startup; the       *)
(* process stops and never reaches the Live state from it.                *)
C3_MalformedSnapshotFatal ==
    [][(phase = "Cold" /\ snapshot = MalformedFile) => phase' = "Cold"]_vars

(* the steps of a snapshot, as C4 orders them *)
SnapshotOfMemory == {SnapshotFile(snap) : snap \in build_snapshot(collections)}
C4_Step ==
    /\ (phase = "Live" /\ snapshot' # snapshot)
          => /\ \E p \in Procs : pc[p] = "snap_rename" /\ pc'[p] = "snap_truncate"
             /\ tmp \in SnapshotOfMemory
             /\ snapshot' = tmp
             /\ wal' = wal
    /\ (phase = "Live" /\ Len(wal') < Len(wal))
          => /\ \E p \in Procs : pc[p] = "snap_truncate"
             /\ snapshot \in SnapshotOfMemory
             /\ snapshot' = snapshot
    /\ \A p \in Procs :
          (pc[p] \in {"snap_tmp", "snap_rename"} /\ pc'[p] = "idle" /\ phase' = "Live")
             => wal' = wal /\ snapshot' = snapshot /\ out'.status = "error"

(* C4: a snapshot writes the temp file, then renames it over the          *)
(* canonical snapshot, then truncates the WAL; the WAL is truncated only  *)
(* after the rename has succeeded, and a failed temp-file write or rename *)
(* leaves the WAL and the canonical snapshot file unchanged.              *)
C4_SnapshotStepOrder == [][C4_Step]_vars

(* a snapshot went through its three steps and emptied a WAL with records *)
C4_Witness ==
    /\ phase = "Live" /\ nsnap = 1 /\ ncorrupt = 0
    /\ snapshot \in SnapshotOfMemory /\ DOMAIN snapshot.snap # {}
    /\ tmp = AbsentFile
    /\ wal = <<>> /\ Len(fullWal) >= 2
    /\ out = Response("ok", 0)
    /\ \A p \in Procs : pc[p] = "idle"

(* the WAL file is the end of the sequence of all records appended *)
IsSuffix(s, t) ==
    /\ Len(s) <= Len(t)
    /\ \A i \in 1..Len(s) : s[i] = t[Len(t) - Len(s) + i]

(* C5: under any interleaving of concurrent mutating requests the records *)
(* of the WAL are in the order in which their mutations were applied to   *)
(* the registry, the items of batch upserts included.                     *)
C5_WalOrderIsCommitOrder ==
    /\ \A i, j \in 1..Len(fullWal) : i < j => fullWal[i].seq < fullWal[j].seq
    /\ ncorrupt = 0 => IsSuffix(wal, FullWalLines)

(* three records are in the file in their order of application, the last *)
(* two from the items of one batch that still holds the lock              *)
C5_Witness ==
    /\ Len(fullWal) = 3 /\ wal = FullWalLines
    /\ fullWal[1].entry.type = "create_collection"
    /\ fullWal[2].entry.type = "upsert_vector"
    /\ fullWal[3].entry.type = "upsert_vector"
    /\ fullWal[3].seq > fullWal[2].seq /\ fullWal[2].seq > fullWal[1].seq
    /\ \E p \in Procs : pc[p] = "upsert_loop" /\ req[p].n = 2

(* the mutation a record stands for is in the registry *)
InMemory(cs, e) ==
    CASE e.type = "create_collection" ->
            lookup(cs, e.tenant, e.name) /\ dimension(cs[e.tenant][e.name]) = e.dimension
      [] e.type = "delete_collection" -> ~lookup(cs, e.tenant, e.name)
      [] e.type = "upsert_vector" ->
            /\ lookup(cs, e.tenant, e.collection)
            /\ Has(cs[e.tenant][e.collection].vectors, e.id)
            /\ cs[e.tenant][e.collection].vectors[e.id]
                  = IndexedVector(e.values, e.metadata)
      [] e.type = "delete_vector" ->
            /\ lookup(cs, e.tenant, e.collection)
            /\ ~Has(cs[e.tenant][e.collection].vectors, e.id)

(* a request answered in the step that took it up: refused, or nothing to *)
(* do                                                                     *)
AnsweredAtOnce == pc' = pc /\ out' # NoOut

C6_Step ==
    /\ (phase = "Live" /\ Len(wal') > Len(wal))
          => /\ wal' = Append(wal, wal'[Len(wal')])
             /\ from_str(wal'[Len(wal')]).ok
             /\ InMemory(collections, from_str(wal'[Len(wal')]).entry)
             /\ collections' = collections
    /\ (phase = "Live" /\ AnsweredAtOnce) => wal' = wal /\ fullWal' = fullWal
    /\ (phase = "Live" /\ out'.status \in {"bad_request", "conflict", "not_found"})
          => wal' = wal /\ fullWal' = fullWal /\ Visible(collections') = Visible(collections)

(* C6: a WAL record is appended only for a mutation that has already      *)
(* succeeded in memory; a request that fails or changes nothing (create   *)
(* of an existing collection or with dimension 0, delete of an absent     *)
(* collection, upsert with wrong dimension or zero vector, operations on  *)
(* an absent collection, delete of an absent vector id) appends nothing.  *)
C6_LogAfterApply == [][C6_Step]_vars

(* the second item of a batch was refused after the first was applied and *)
(* logged: one upsert record follows the create record                    *)
C6_Witness ==
    /\ phase = "Live" /\ out.status = "bad_request" /\ out.n = 1
    /\ Len(wal) = 2 /\ wal = FullWalLines
    /\ wal[2].entry.type = "upsert_vector"
    /\ InMemory(collections, wal[2].entry)
    /\ applied = 2

C7_Step ==
    (phase = "Live" /\ nfail' # nfail)
       => /\ collections' = collections
          /\ wal' = wal
          /\ \E p \in Procs :
                /\ pc[p] = "append"
                /\ InMemory(collections', req[p].entry)
                /\ IF req[p].op = "upsert_vectors"
                   THEN pc'[p] = "upsert_loop" /\ req'[p].n = req[p].n /\ out' = NoOut
                   ELSE pc'[p] = "idle" /\ out' = Response("ok", req[p].n)
          /\ phase' = "Live"

(* C7: a failed WAL append is not fatal to its request: the mutation      *)
(* already applied in memory is not rolled back, the request still        *)
(* reports success (a batch goes on and counts the item), and later       *)
(* requests see the mutation.                                             *)
C7_AppendFailureNotFatal == [][C7_Step]_vars

(* a batch whose only item was applied but not logged answered            *)
(* upserted: 1, and the vector is in the collection                       *)
C7_Witness ==
    /\ phase = "Live" /\ nfail = 1 /\ nsnap = 0
    /\ out = Response("ok", 1)
    /\ applied = 2 /\ Len(fullWal) = 1 /\ wal = FullWalLines
    /\ fullWal[1].entry.type = "create_collection"
    /\ \E t \in Tenants, c \in Names :
          lookup(collections, t, c) /\ vector_count(collections[t][c]) = 1

(* the lines of the file that parse, in file order *)
Parses(line) == from_str(line).ok
ParseableLines(lines) == SelectSeq(lines, Parses)
StartupBase ==
    LET loaded == load_collections_from_snapshot(snapshot)
    IN  IF loaded.tag = "Some" THEN loaded.map ELSE EmptyMap

(* C8: replay skips a line that fails to parse and still applies every    *)
(* other line in file order: the state it builds is the one of the replay *)
(* of the file with the corrupt lines removed.                            *)
C8_ReplaySkipsCorruptLines ==
    /\ replay_wal(wal, StartupBase) = replay_wal(ParseableLines(wal), StartupBase)
    /\ replay_wal(wal, EmptyMap) = replay_wal(ParseableLines(wal), EmptyMap)

(* the record that creates the collection was damaged, and the replay of  *)
(* the upsert after it still builds the collection and its vector         *)
C8_Witness ==
    /\ phase = "Cold" /\ Len(wal) = 2
    /\ wal[1] = GarbageLine
    /\ Parses(wal[2]) /\ wal[2].entry.type = "upsert_vector"
    /\ InMemory(replay_wal(wal, StartupBase), wal[2].entry)
    /\ replay_wal(wal, StartupBase) = replay_wal(<<wal[2]>>, StartupBase)

(* the queries a client can put to an index, and the ids of an answer *)
Queries(index) == {qk \in Vals \X TopKs : Len(qk[1]) = index.dim}
MatchIds(matches) == {matches[i].id : i \in 1..Len(matches)}

(* C9: after delete(id) returned true on a collection, no query on that   *)
(* collection returns the id until it is upserted again, whatever upserts *)
(* and deletes of other ids follow.                                       *)
C9_DeletedIdNotReturned ==
    \A tomb \in tombs :
       lookup(collections, tomb[1], tomb[2]) =>
          \A qk \in Queries(collections[tomb[1]][tomb[2]]) :
             \A r \in query(collections[tomb[1]][tomb[2]], qk[1], qk[2]) :
                tomb[3] \notin MatchIds(r.matches)

(* a was deleted and its point is still in the graph; a query for two     *)
(* neighbours answers with the one other vector                           *)
C9_Witness ==
    /\ phase = "Live" /\ tombs = {<<"t1", "c", "a">>}
    /\ lookup(collections, "t1", "c")
    /\ DOMAIN collections["t1"]["c"].vectors = {"b"}
    /\ Len(collections["t1"]["c"].hnsw) = 2
    /\ \E qk \in Queries(collections["t1"]["c"]) :
          /\ qk[2] = 2
          /\ \E r \in query(collections["t1"]["c"], qk[1], qk[2]) :
                r.ok /\ MatchIds(r.matches) = {"b"}

(* what a query answers from an index that holds one record per id, the   *)
(* latest: no id twice, each hit scored against the stored values and     *)
(* carrying the stored metadata                                           *)
LatestOnly(index) ==
    /\ vector_count(index) = Cardinality(DOMAIN index.id_to_data_id)
    /\ \A qk \in Queries(index) :
          \A r \in query(index, qk[1], qk[2]) :
             /\ Cardinality(MatchIds(r.matches)) = Len(r.matches)
             /\ \A i \in 1..Len(r.matches) :
                   /\ Has(index.vectors, r.matches[i].id)
                   /\ r.matches[i].metadata = index.vectors[r.matches[i].id].metadata
                   /\ SimEq(r.matches[i].score,
                            Similarity(qk[1], index.vectors[r.matches[i].id].values))
    /\ \A dump \in export_vectors(index) :
          /\ Len(dump) = vector_count(index)
          /\ \A i \in 1..Len(dump) :
                index.vectors[dump[i].id]
                    = IndexedVector(dump[i].values, dump[i].metadata)

(* some id of the index was upserted twice with different values *)
Overwritten(index) ==
    \E i, j \in 1..Len(index.hnsw) :
       /\ i < j
       /\ index.hnsw[i].d_id = index.hnsw[j].d_id
       /\ index.hnsw[i].v # index.hnsw[j].v
       /\ Has(index.data_id_to_id, index.hnsw[j].d_id)

(* C10 as stated: upserting an id twice with different values leaves      *)
(* exactly one record for the id, and that record, as counted by          *)
(* vector_count and as used to answer queries and exports, reflects only  *)
(* the latest values and metadata.                                        *)
C10_UpsertOverwrites ==
    \A t \in DOMAIN collections : \A c \in DOMAIN collections[t] :
       Overwritten(collections[t][c]) => LatestOnly(collections[t][c])

(* the indexes of the registry *)
Indexes ==
    UNION {{collections[t][c] : c \in DOMAIN collections[t]} : t \in DOMAIN collections}
Min(a, b) == IF a <= b THEN a ELSE b

(* C11 as stated: a successful query with top_k > 0 returns exactly       *)
(* min(top_k, number of distinct live ids) results, also when deletes and *)
(* overwrites have left tombstoned or superseded nodes in the graph.      *)
C11_QueryLength ==
    \A index \in Indexes : \A qk \in Queries(index) :
       qk[2] > 0 =>
          \A r \in query(index, qk[1], qk[2]) :
             r.ok => Len(r.matches) = Min(qk[2], vector_count(index))

ZeroVector(n) == [i \in 1..n |-> 0]

(* C12 as stated: upsert of a zero-norm vector fails and stores no        *)
(* record, and query with a zero-norm vector fails with an input error    *)
(* for every top_k and every index content, top_k = 0 and the empty index *)
(* included.                                                              *)
C12_ZeroVectorsRejected ==
    \A index \in Indexes :
       /\ \A id \in Ids, m \in Metas :
             LET r == upsert(index, id, ZeroVector(index.dim), m)
             IN  ~r.ok /\ r.index = index
       /\ \A k \in TopKs : \A r \in query(index, ZeroVector(index.dim), k) : ~r.ok

(* index.upsert refuses every vector of another length and keeps the      *)
(* index as it is                                                         *)
C13_Upsert ==
    \A index \in Indexes : \A id \in Ids, v \in Payloads :
       Len(v.values) # index.dim =>
          LET r == upsert(index, id, v.values, v.metadata)
          IN  ~r.ok /\ r.err = "dimension" /\ r.index = index

C13_Step ==
    \A p \in Procs :
       /\ (phase = "Live" /\ pc[p] = "upsert_loop" /\ pc'[p] = "idle"
             /\ out'.status = "bad_request" /\ out'.msg = "dimension")
             => collections' = collections /\ wal' = wal /\ fullWal' = fullWal
       /\ (phase = "Live" /\ pc[p] = "upsert_loop" /\ pc'[p] = "append")
             => Len(req'[p].entry.values)
                    = dimension(collections[req[p].tenant][req[p].name])

(* C13: an upsert whose vector length differs from the collection's       *)
(* dimension always fails and leaves the collection unchanged: same live  *)
(* ids, values and metadata, same id maps and next internal id, and no    *)
(* WAL record.                                                            *)
C13_DimensionMismatchRejected == []C13_Upsert /\ [][C13_Step]_vars

(* a batch was refused at its first item for its length; the collection   *)
(* keeps the one vector it had and the WAL its two records                *)
C13_Witness ==
    /\ phase = "Live" /\ out = BadRequest(0, "dimension")
    /\ Len(wal) = 2 /\ wal = FullWalLines /\ applied = 2
    /\ \E index \in Indexes :
          /\ vector_count(index) = 1 /\ index.next_data_id = 1
          /\ Len(index.hnsw) = 1

C14_Create ==
    \A tc \in Targets, d \in Dims \ {0} :
       LET r == create_apply(collections, tc[1], tc[2], d)
       IN  /\ r.conflict <=> lookup(collections, tc[1], tc[2])
           /\ r.conflict => r.collections = collections

C14_Step ==
    /\ (phase = "Live" /\ out'.status = "conflict")
          => collections' = collections /\ wal' = wal /\ fullWal' = fullWal
    /\ (phase = "Live" /\ out'.status = "bad_request"
          /\ out'.msg = "dimension must be greater than 0")
          => collections' = collections /\ wal' = wal /\ fullWal' = fullWal

(* C14: create_collection fails with a conflict when (tenant, name)       *)
(* exists and with an invalid-dimension error when dimension == 0; in     *)
(* both cases the registry is unchanged: the existing collection keeps    *)
(* its dimension and vectors and no tenant entry is added.                *)
C14_CreateErrors == []C14_Create /\ [][C14_Step]_vars

(* a create was refused for its name; the collection of that name still   *)
(* has its vector                                                         *)
C14_Witness ==
    /\ phase = "Live" /\ out = Response("conflict", 0)
    /\ Cardinality(Indexes) = 1
    /\ \E index \in Indexes : vector_count(index) = 1
    /\ Len(wal) = 2 /\ applied = 2

(* task p answers its batch with the error of the item it has reached *)
BatchRefused(p) ==
    /\ phase = "Live" /\ pc[p] = "upsert_loop" /\ pc'[p] = "idle"
    /\ out'.status = "bad_request"

(* the req[p].n items before it are in memory and are the last records of *)
(* the log, one each, in their order; the refused item and the rest of    *)
(* the batch are neither applied nor logged; a restart from the files     *)
(* gives the registry as it is                                            *)
BatchPrefixCommitted(p) ==
    /\ collections' = collections /\ wal' = wal /\ fullWal' = fullWal
    /\ out'.n = req[p].n /\ lock'.writer # p
    /\ Len(fullWal) >= req[p].n
    /\ \A i \in 1..req[p].n :
          LET rec == fullWal[Len(fullWal) - req[p].n + i]
          IN  /\ rec.entry.type = "upsert_vector"
              /\ rec.entry.tenant = req[p].tenant
              /\ rec.entry.collection = req[p].name
              /\ rec.seq = applied - req[p].n + i
    /\ Visible(startup_collections(snapshot', wal')) = Visible(collections')

(* C15 as stated: when item k of a batch fails validation, items 1..k-1   *)
(* stay committed in memory and each has its own WAL record, item k and   *)
(* the later items are not applied and not logged, the request reports an *)
(* error, and a restart recovers exactly the committed prefix.            *)
C15_AsStated ==
    [][\A p \in Procs : BatchRefused(p) => BatchPrefixCommitted(p)]_vars

(* C15 amended: the same, when no WAL append has failed (an item whose    *)
(* append failed is committed in memory and has no record).               *)
C15_BatchPerItem ==
    [][\A p \in Procs : (BatchRefused(p) /\ nfail = 0) => BatchPrefixCommitted(p)]_vars

(* the second item of a batch was a zero vector: the first is in memory   *)
(* and in the WAL and is what a restart recovers                          *)
C15_Witness ==
    /\ phase = "Live" /\ out = BadRequest(1, "zero norm") /\ nfail = 0
    /\ Len(wal) = 2 /\ wal[2].entry.type = "upsert_vector"
    /\ \E index \in Indexes : vector_count(index) = 1
    /\ Visible(startup_collections(snapshot, wal)) = Visible(collections)

(* the tasks inside a handler's section under the write guard, and under  *)
(* a read guard                                                           *)
WritersInside == {p \in Procs : pc[p] \in {"append", "upsert_loop"}}
ReadersInside ==
    {p \in Procs : pc[p] \in {"query", "snap_tmp", "snap_rename", "snap_truncate"}}

C16_Exclusion ==
    /\ Cardinality(WritersInside) <= 1
    /\ WritersInside # {} => ReadersInside = {}
    /\ \A p \in WritersInside : lock.writer = p
    /\ lock.readers = ReadersInside

(* while a reader is inside no step changes the registry, so readers that *)
(* overlap see one state                                                  *)
C16_Step ==
    (ReadersInside # {} /\ phase' = "Live") => collections' = collections

CollectionView(cs, t, c) ==
    IF lookup(cs, t, c)
    THEN [present |-> TRUE, dim |-> cs[t][c].dim, vectors |-> cs[t][c].vectors]
    ELSE [present |-> FALSE]
Changed(cs1, cs2) ==
    {tc \in Tenants \X Names :
        CollectionView(cs1, tc[1], tc[2]) # CollectionView(cs2, tc[1], tc[2])}
EntryTarget(e) ==
    IF e.type \in {"create_collection", "delete_collection"}
    THEN <<e.tenant, e.name>> ELSE <<e.tenant, e.collection>>

(* every parseable line of the WAL, replayed where startup replays it,    *)
(* changes no collection but its own                                      *)
C17_Replay ==
    \A i \in 1..Len(wal) :
       Parses(wal[i]) =>
          LET cs == replay_wal(SubSeq(wal, 1, i - 1), StartupBase)
              e == from_str(wal[i]).entry
          IN  Changed(cs, replay_entry(cs, e)) \subseteq {EntryTarget(e)}

(* a step of a handler changes no collection but the one of its request *)
C17_Step ==
    (phase = "Live" /\ phase' = "Live" /\ Changed(collections, collections') # {})
       => \E p \in Procs :
             /\ pc'[p] = "append"
             /\ Changed(collections, collections') = {EntryTarget(req'[p].entry)}

(* C17: an upsert, vector delete, collection create or collection delete  *)
(* for (t, c) never alters the dimension, live ids, values or metadata of *)
(* another collection, also when the same external id or the same         *)
(* collection name is used under another tenant.                          *)
C17_Isolation == []C17_Replay /\ [][C17_Step]_vars

(* two tenants have a collection of the same name, each with its own      *)
(* vector under the same id                                               *)
C17_Witness ==
    /\ phase = "Live" /\ out = NoOut
    /\ lookup(collections, "t1", "c") /\ lookup(collections, "t2", "c")
    /\ Has(collections["t1"]["c"].vectors, "a")
    /\ Has(collections["t2"]["c"].vectors, "a")
    /\ collections["t1"]["c"].vectors["a"] # collections["t2"]["c"].vectors["a"]
    /\ Len(wal) = 4

IndexesOf(cs) == UNION {{cs[t][c] : c \in DOMAIN cs[t]} : t \in DOMAIN cs}

(* every record and every graph point of the index has dim components,    *)
(* and no record is a zero vector                                         *)
WellDimensioned(index) ==
    /\ \A id \in DOMAIN index.vectors :
          /\ Len(index.vectors[id].values) = index.dim
          /\ NormSq(index.vectors[id].values) # 0
    /\ \A i \in 1..Len(index.hnsw) : Len(index.hnsw[i].v) = index.dim

C18_State ==
    /\ \A index \in IndexesOf(collections) : WellDimensioned(index)
    /\ \A index \in IndexesOf(startup_collections(snapshot, wal)) :
          WellDimensioned(index)

(* a collection that a step keeps, keeps its dimension *)
C18_Step ==
    \A tc \in Tenants \X Names :
       (lookup(collections, tc[1], tc[2]) /\ lookup(collections', tc[1], tc[2]))
          => dimension(collections'[tc[1]][tc[2]]) = dimension(collections[tc[1]][tc[2]])

C19_NoDimensionZero ==
    \A index \in IndexesOf(collections) : dimension(index) # 0

(* C20 as stated: the WAL append of a mutating request is performed with  *)
(* the registry lock already released: no request holds the write lock    *)
(* while it is appending.                                                 *)
C20_AppendWithLockReleased ==
    \A p \in Procs : pc[p] = "append" => lock.writer # p

NoEmptyTenant(cs) == \A t \in DOMAIN cs : DOMAIN cs[t] # {}

C21_State ==
    /\ NoEmptyTenant(collections)
    /\ NoEmptyTenant(startup_collections(snapshot, wal))

(* the step that removes a collection removes its tenant with it unless   *)
(* the tenant has another collection                                      *)
C21_Step ==
    \A p \in Procs :
       (phase = "Live" /\ pc[p] = "idle" /\ pc'[p] = "append"
          /\ req'[p].entry.type = "delete_collection")
          => LET t == req'[p].entry.tenant
             IN  IF DOMAIN collections[t] = {req'[p].entry.name}
                 THEN ~Has(collections', t)
                 ELSE Has(collections', t) /\ DOMAIN collections'[t] # {}

(* C21: in every reachable state of the registry (after any sequence of   *)
(* create_collection, delete_collection, failed requests, snapshot load   *)
(* and WAL replay) every tenant present owns at least one collection;     *)
(* deleting a tenant's last collection removes the tenant entry.          *)
C21_NoEmptyTenant == []C21_State /\ [][C21_Step]_vars

(* the last collection of t2 was deleted and t2 is gone from the         *)
(* registry, which keeps t1 and its collection                            *)
C21_Witness ==
    /\ phase = "Live" /\ applied = 4
    /\ DOMAIN collections = {"t1"}
    /\ DOMAIN collections["t1"] = {"d"}
    /\ \E p \in Procs :
          pc[p] = "append" /\ req[p].entry = DeleteCollection("t2", "c")

(* the ids of one index: the two maps are inverse to each other over the  *)
(* live ids, and every internal id handed out is below next_data_id       *)
C22_State ==
    \A index \in IndexesOf(collections) :
       /\ DOMAIN index.id_to_data_id = DOMAIN index.vectors
       /\ \A id \in DOMAIN index.id_to_data_id :
             /\ Has(index.data_id_to_id, index.id_to_data_id[id])
             /\ index.data_id_to_id[index.id_to_data_id[id]] = id
       /\ \A d \in DOMAIN index.data_id_to_id :
             /\ d < index.next_data_id
             /\ Has(index.id_to_data_id, index.data_id_to_id[d])
             /\ index.id_to_data_id[index.data_id_to_id[d]] = d
       /\ \A i \in 1..Len(index.hnsw) : index.hnsw[i].d_id < index.next_data_id

(* a step on an index it keeps: the counter does not go down, a live id   *)
(* keeps its internal id, a new id gets the counter's value, and an       *)
(* internal id once handed out is mapped to no other external id          *)
C22_IndexStep(old, new) ==
    /\ new.next_data_id >= old.next_data_id
    /\ \A id \in DOMAIN old.id_to_data_id \cap DOMAIN new.id_to_data_id :
          new.id_to_data_id[id] = old.id_to_data_id[id]
    /\ \A id \in DOMAIN new.id_to_data_id \ DOMAIN old.id_to_data_id :
          /\ new.id_to_data_id[id] = old.next_data_id
          /\ new.next_data_id = old.next_data_id + 1
    /\ \A d \in DOMAIN new.data_id_to_id :
          d < old.next_data_id
             => Has(old.data_id_to_id, d) /\ old.data_id_to_id[d] = new.data_id_to_id[d]

C22_Step ==
    \A tc \in Tenants \X Names :
       (phase = "Live" /\ phase' = "Live"
          /\ lookup(collections, tc[1], tc[2]) /\ lookup(collections', tc[1], tc[2]))
          => C22_IndexStep(collections[tc[1]][tc[2]], collections'[tc[1]][tc[2]])

(* C22: within one index the next internal id only increases and an       *)
(* internal id is never assigned to two allocations: overwriting a live   *)
(* external id keeps its internal id, re-upserting an external id after   *)
(* its delete allocates a fresh one, and the old internal id is never     *)
(* mapped to an external id again.                                        *)
C22_InternalIdsNeverReused == []C22_State /\ [][C22_Step]_vars

(* a was upserted, deleted and upserted again: it has internal id 1, and  *)
(* the point of internal id 0 is still in the graph, unmapped             *)
C22_Witness ==
    /\ phase = "Live"
    /\ \E index \in IndexesOf(collections) :
          /\ index.next_data_id = 2
          /\ Has(index.id_to_data_id, "a") /\ index.id_to_data_id["a"] = 1
          /\ ~Has(index.data_id_to_id, 0)
          /\ Len(index.hnsw) = 2 /\ index.hnsw[1].d_id = 0

(* the registry the snapshot file holds *)
Snapshotted == load_collections_from_snapshot(snapshot).map

(* the WAL holds the whole history: no append failed, no line was damaged *)
HistoryRecorded == nfail = 0 /\ ncorrupt = 0

(* the new snapshot is in place and the WAL is not yet truncated: a stop  *)
(* here leaves these files to startup                                     *)
C23_State ==
    \A p \in Procs :
       (pc[p] = "snap_truncate" /\ HistoryRecorded)
          => /\ load_collections_from_snapshot(snapshot).tag = "Some"
             /\ Visible(startup_collections(snapshot, wal)) = Visible(Snapshotted)
             /\ Visible(Snapshotted) = Visible(collections)

(* startup on a snapshot that holds all the untruncated WAL holds *)
C23_Step ==
    (/\ phase = "Cold" /\ phase' = "Live"
     /\ snapshot.kind = "json" /\ wal # <<>> /\ wal = FullWalLines
     /\ HistoryRecorded
     /\ Visible(Snapshotted) = Visible(replay_wal(wal, EmptyMap)))
       => Visible(collections') = Visible(Snapshotted)

(* C23: if the process stops after the new snapshot file is in place but  *)
(* before the WAL is truncated, startup recovery (load the snapshot, then *)
(* replay the whole untruncated WAL on top of it) yields the visible      *)
(* registry state of the snapshot, for every history of creates, deletes, *)
(* upserts and collection re-creations recorded in that WAL.              *)
C23_CrashBeforeTruncate == []C23_State /\ [][C23_Step]_vars

(* the server restarted on a snapshot and the untruncated WAL of the      *)
(* create and the upsert the snapshot holds, and serves that registry     *)
C23_Witness ==
    /\ phase = "Live" /\ ncrash = 1 /\ nsnap = 1 /\ HistoryRecorded
    /\ snapshot.kind = "json" /\ wal = FullWalLines /\ Len(wal) = 2
    /\ wal[2].entry.type = "upsert_vector"
    /\ applied = 2
    /\ Visible(collections) = Visible(Snapshotted)
    /\ \E index \in IndexesOf(collections) : vector_count(index) = 1

(* the files determine the registry: no applied and logged mutation is    *)
(* missing from the snapshot and the WAL together                         *)
C24_State ==
    (phase = "Live" /\ NoAppendPending /\ HistoryRecorded)
       => Visible(startup_collections(snapshot, wal)) = Visible(collections)

(* the truncation erases records only when the snapshot in place holds    *)
(* the registry as it is, with every mutation applied so far, and no      *)
(* mutating request is between its mutation and its append                *)
C24_Step ==
    (phase = "Live" /\ Len(wal') < Len(wal))
       => /\ snapshot \in SnapshotOfMemory
          /\ Visible(Snapshotted) = Visible(collections)
          /\ WritersInside = {}
          /\ collections' = collections

C25_NoDuplicateNoStaleHit ==
    \A index \in IndexesOf(collections) : \A qk \in Queries(index) :
       \A r \in query(index, qk[1], qk[2]) :
          /\ \A i, j \in 1..Len(r.matches) :
                i < j => r.matches[i].id # r.matches[j].id
          /\ \A i \in 1..Len(r.matches) :
                SimEq(r.matches[i].score,
                      Similarity(qk[1], index.vectors[r.matches[i].id].values))

====
